---- MODULE Spec2Model ----
(***************************************************************************)
(* Model of visualize_map.py: main() loads the allocation and calls        *)
(* create_room_map(), which groups the rooms by type, partitions the       *)
(* figure into a grid of subplots, draws one card per room in the subplot  *)
(* of its type, draws the unallocated courses in the last column and saves *)
(* the figure.  Lengths are in tenths of a unit (spacing 2.2 is 22), a     *)
(* colour is an RGB triple in 0..255, a room type is a number whose order  *)
(* is the lexicographic order of the type names.                           *)
(***************************************************************************)
EXTENDS Integers, Sequences, FiniteSets

VARIABLES rooms, m, pc, type_counts, num_cols, num_rows, idx, axes,
          unalloc_ax, image, exit_code

vars == <<rooms, m, pc, type_counts, num_cols, num_rows, idx, axes,
          unalloc_ax, image, exit_code>>

(* ---------------- bounds of the input ---------------- *)
NumTypes == 4
MaxRooms == 6
MaxUnalloc == 9
MaxRecRooms == 2

(* ---------------- the input records ---------------- *)
\* a key that a record lacks: pandas fills the cell with NaN
Missing == 0
\* "course": null
NoCourse == -1
\* a course dict without "size"
NoSize == -2
\* the capacity of the well-formed rooms
Capacity == 10
\* course sizes: utilization 0, 0.5, 1 and 1.2 of Capacity
Sizes == {0, 5, 10, 12}

Room(t, c, s) == [type |-> t, capacity |-> c, course |-> s]

\* well-formed vacant rooms, any order of types
LayoutRooms ==
  UNION {[1..n -> {Room(t, Capacity, NoCourse) : t \in 1..NumTypes}] : n \in 1..MaxRooms}

\* well-formed vacant rooms of one type
SingleTypeRooms == {[i \in 1..n |-> Room(1, Capacity, NoCourse)] : n \in 1..MaxRooms}

\* short lists of arbitrary records, keys possibly missing
RecordRooms ==
  UNION {[1..n -> {Room(t, c, s) : t \in {Missing, 1}, c \in {Missing, Capacity},
                                   s \in {NoCourse, NoSize} \cup Sizes}]
         : n \in 0..MaxRecRooms}

(* ---------------- constants of create_room_map ---------------- *)
room_width == 18
room_height == 18
spacing == 22
max_cols == 5
courses_per_row == 8
unalloc_dx == 30
unalloc_dy == 12
unalloc_width == 25
unalloc_height == 8
\* entries of the colormap's lookup table
LutSize == 256

\* math.ceil(a / b) for a >= 0, b > 0
Ceil(a, b) == IF a % b = 0 THEN a \div b ELSE a \div b + 1

Min(a, b) == IF a < b THEN a ELSE b

(* ---------------- the DataFrame ---------------- *)
\* pd.DataFrame(rooms_data): a column exists when some record has the key
HasColumn(df, key) == \E i \in 1..Len(df) : df[i][key] # Missing

\* row x of df.apply: x['course']['size'] / x['capacity'] raises
ApplyRaises(df, i) ==
  /\ df[i].course # NoCourse
  /\ \/ df[i].course = NoSize
     \/ ~HasColumn(df, "capacity")

\* lines 15-25 raise: the lambda on some row, or groupby('type') without the column
GroupRaises(df) ==
  \/ \E i \in 1..Len(df) : ApplyRaises(df, i)
  \/ ~HasColumn(df, "type")

\* ascending sequence of the members of a set of numbers
RECURSIVE SortedSeq(_)
SortedSeq(S) ==
  IF S = {} THEN <<>>
  ELSE LET lo == CHOOSE x \in S : \A y \in S : x <= y
       IN <<lo>> \o SortedSeq(S \ {lo})

\* ordered sequence of the keys as they first appear in the rows
RECURSIVE FirstSeenSeq(_, _)
FirstSeenSeq(df, seen) ==
  IF df = <<>> THEN <<>>
  ELSE IF Head(df).type = Missing \/ Head(df).type \in seen
       THEN FirstSeenSeq(Tail(df), seen)
       ELSE <<Head(df).type>> \o FirstSeenSeq(Tail(df), seen \cup {Head(df).type})

FirstSeenKeys(df) == FirstSeenSeq(df, {})

\* df.groupby('type'): the keys, NaN dropped, sorted (sort=True is the default)
GroupKeys(df) ==
  SortedSeq({df[i].type : i \in 1..Len(df)} \ {Missing})

\* the positions of the rows selected by df[df['type'] == room_type], in row order
RECURSIVE RowsFrom(_, _, _)
RowsFrom(df, room_type, i) ==
  IF i > Len(df) THEN <<>>
  ELSE IF df[i].type = room_type
       THEN <<i>> \o RowsFrom(df, room_type, i + 1)
       ELSE RowsFrom(df, room_type, i + 1)

TypeRoomsDropFirst(df, room_type) ==
  LET all == RowsFrom(df, room_type, 1)
  IN IF Len(all) > 1 THEN Tail(all) ELSE all

TypeRooms(df, room_type) == RowsFrom(df, room_type, 1)

\* df.groupby('type').size(): <<type, count>> per key
TypeCounts(df) ==
  LET keys == GroupKeys(df)
  IN [j \in 1..Len(keys) |-> <<keys[j], Len(RowsFrom(df, keys[j], 1))>>]

(* ---------------- the canvas partition ---------------- *)
has_unallocated == m > 0

NumCols(unalloc) == IF unalloc THEN 3 ELSE 2

TotalPlots(num_types, unalloc) == num_types + (IF unalloc THEN 1 ELSE 0)

NumRowsFloor(num_types, unalloc) ==
  TotalPlots(num_types, unalloc) \div NumCols(unalloc)

NumRows(num_types, unalloc) ==
  Ceil(TotalPlots(num_types, unalloc), NumCols(unalloc))

CategoryCellWide(i, ncols) == [row |-> i \div (ncols + 1), col |-> i % ncols]

\* gs[row, col] of category i
CategoryCell(i, ncols) == [row |-> i \div ncols, col |-> i % ncols]

(* ---------------- the card packer ---------------- *)
GridCols(n_rooms) == Min(max_cols, n_rooms)

GridRowsPlusOne(n_rooms) == n_rooms \div GridCols(n_rooms) + 1

GridRows(n_rooms) == Ceil(n_rooms, GridCols(n_rooms))

RoomX(i, grid_cols) == (i % grid_cols) * spacing

RoomYFlat(i, grid_cols, grid_rows) == (grid_rows - 1) * spacing

RoomY(i, grid_cols, grid_rows) == (grid_rows - 1 - (i \div grid_cols)) * spacing

(* ---------------- the colormap ---------------- *)
\* plt.cm.RdYlGn: the 11 anchors of the ColorBrewer scale, first to last
RdYlGn ==
  << <<165, 0, 38>>, <<215, 48, 39>>, <<244, 109, 67>>, <<253, 174, 97>>,
     <<254, 224, 139>>, <<255, 255, 191>>, <<217, 239, 139>>, <<166, 217, 106>>,
     <<102, 189, 99>>, <<26, 152, 80>>, <<0, 104, 55>> >>

\* entry k of the lookup table: linear interpolation between the anchors
Lut(k) ==
  LET segs == Len(RdYlGn) - 1
      pos == k * segs
      seg == Min(pos \div (LutSize - 1), segs - 1)
      num == pos - seg * (LutSize - 1)
      a == RdYlGn[seg + 1]
      b == RdYlGn[seg + 2]
  IN [ch \in 1..3 |-> (a[ch] * (LutSize - 1) + (b[ch] - a[ch]) * num) \div (LutSize - 1)]

\* cmap(size / capacity): index int(u * N), u = 1 and above on the last entry
cmap(size, capacity) == Lut(Min((size * LutSize) \div capacity, LutSize - 1))

\* no utilization circle on the card
NoColor == <<-1, -1, -1>>

(* ---------------- drawing one room type ---------------- *)
\* the card of the i-th (0-based) room of a type, row r of the DataFrame
RoomCard(df, r, i, grid_cols, grid_rows) ==
  [room |-> r,
   x |-> RoomX(i, grid_cols),
   y |-> RoomY(i, grid_cols, grid_rows),
   w |-> room_width,
   h |-> room_height,
   cap |-> df[r].capacity,
   color |-> IF df[r].course = NoCourse THEN NoColor
             ELSE IF df[r].capacity = Missing THEN NoColor
             ELSE cmap(df[r].course, df[r].capacity)]

\* drawing row r raises: room['capacity'] without the column, or int(nan * 100)
CardRaises(df, r) ==
  \/ ~HasColumn(df, "capacity")
  \/ df[r].course # NoCourse /\ df[r].capacity = Missing

\* the subplot of category i (0-based) with its patches, lines 52-122
RoomTypeAxes(df, i, room_type, ncols) ==
  LET type_rooms == TypeRooms(df, room_type)
      n_rooms == Len(type_rooms)
      grid_cols == GridCols(n_rooms)
      grid_rows == GridRows(n_rooms)
      cell == CategoryCell(i, ncols)
  IN [type |-> room_type, row |-> cell.row, col |-> cell.col,
      n_rooms |-> n_rooms, grid_cols |-> grid_cols, grid_rows |-> grid_rows,
      patches |-> [j \in 1..n_rooms |->
                     RoomCard(df, type_rooms[j], j - 1, grid_cols, grid_rows)]]

(* ---------------- the unallocated courses ---------------- *)
RowsNeeded(n) == Ceil(n, courses_per_row)

UnallocX(i) == (i % courses_per_row) * unalloc_dx

UnallocYTopDown(i, rows_needed) == (i \div courses_per_row) * unalloc_dy

UnallocY(i, rows_needed) == (rows_needed - 1 - (i \div courses_per_row)) * unalloc_dy

\* the subplot gs[:, -1] with one rectangle per unallocated course, lines 124-156
UnallocAxes(n, ncols) ==
  [col |-> ncols - 1,
   rows_needed |-> RowsNeeded(n),
   patches |-> [j \in 1..n |->
                  [course |-> j - 1,
                   x |-> UnallocX(j - 1),
                   y |-> UnallocY(j - 1, RowsNeeded(n)),
                   w |-> unalloc_width,
                   h |-> unalloc_height]]]

(* ---------------- the state machine ---------------- *)
InitRun ==
  /\ pc = "start"
  /\ type_counts = <<>>
  /\ num_cols = 0
  /\ num_rows = 0
  /\ idx = 0
  /\ axes = <<>>
  /\ unalloc_ax = <<>>
  /\ image = FALSE
  /\ exit_code = -1

Init ==
  /\ InitRun
  /\ \/ rooms \in LayoutRooms /\ m \in {0, 1}
     \/ rooms \in RecordRooms /\ m = 0
     \/ rooms \in SingleTypeRooms /\ m \in 2..MaxUnalloc

\* create_room_map lines 13-49: DataFrame, utilization, groupby, grid
Partition ==
  /\ pc = "start"
  /\ IF GroupRaises(rooms)
     THEN /\ pc' = "error"
          /\ UNCHANGED <<type_counts, num_cols, num_rows>>
     ELSE /\ type_counts' = TypeCounts(rooms)
          /\ num_cols' = NumCols(has_unallocated)
          /\ num_rows' = NumRows(Len(TypeCounts(rooms)), has_unallocated)
          /\ pc' = "plot_types"
  /\ UNCHANGED <<rooms, m, idx, axes, unalloc_ax, image, exit_code>>

\* one iteration of the loop over type_counts.items(), lines 52-122
PlotRoomType ==
  /\ pc = "plot_types"
  /\ idx < Len(type_counts)
  /\ LET room_type == type_counts[idx + 1][1]
     IN IF \E j \in 1..Len(TypeRooms(rooms, room_type)) :
             CardRaises(rooms, TypeRooms(rooms, room_type)[j])
        THEN /\ pc' = "error"
             /\ UNCHANGED <<idx, axes>>
        ELSE /\ axes' = Append(axes, RoomTypeAxes(rooms, idx, room_type, num_cols))
             /\ idx' = idx + 1
             /\ pc' = "plot_types"
  /\ UNCHANGED <<rooms, m, type_counts, num_cols, num_rows, unalloc_ax, image, exit_code>>

\* lines 124-156: the unallocated courses in the last column
PlotUnallocated ==
  /\ pc = "plot_types"
  /\ idx = Len(type_counts)
  /\ has_unallocated
  /\ unalloc_ax' = <<UnallocAxes(m, num_cols)>>
  /\ pc' = "savefig"
  /\ UNCHANGED <<rooms, m, type_counts, num_cols, num_rows, idx, axes, image, exit_code>>

\* lines 158-162 and main line 182: the image is written, main returns
SaveFig ==
  /\ \/ pc = "savefig"
     \/ pc = "plot_types" /\ idx = Len(type_counts) /\ ~has_unallocated
  /\ image' = TRUE
  /\ exit_code' = 0
  /\ pc' = "done"
  /\ UNCHANGED <<rooms, m, type_counts, num_cols, num_rows, idx, axes, unalloc_ax>>

\* main lines 184-186: except Exception: print, sys.exit(1)
HandleError ==
  /\ pc = "error"
  /\ exit_code' = 1
  /\ pc' = "exit"
  /\ UNCHANGED <<rooms, m, type_counts, num_cols, num_rows, idx, axes, unalloc_ax, image>>

Next ==
  \/ Partition
  \/ PlotRoomType
  \/ PlotUnallocated
  \/ SaveFig
  \/ HandleError

Spec == Init /\ [][Next]_vars

TypeOK ==
  /\ pc \in {"start", "plot_types", "savefig", "done", "error", "exit"}
  /\ image \in BOOLEAN
  /\ exit_code \in {-1, 0, 1}
  /\ idx \in 0..Len(type_counts)
  /\ Len(axes) = idx
  /\ Len(unalloc_ax) \in {0, 1}

(* ---------------- properties ---------------- *)
\* the distinct room types present in the input
InputTypes == {rooms[i].type : i \in 1..Len(rooms)} \ {Missing}

\* every record has its type, its capacity and, when occupied, its course size
WellFormed ==
  \A i \in 1..Len(rooms) :
    /\ rooms[i].type # Missing
    /\ rooms[i].capacity # Missing
    /\ rooms[i].course # NoSize

\* C1: when the unallocated list is non-empty (grid of 3 columns), no
\* category is assigned a cell of the last column, which the subplot of the
\* unallocated courses spans over all rows.
C1_LastColumnReserved ==
  num_cols = 3 => \A j \in 1..Len(axes) : axes[j].col \in {0, 1}

\* C2: for a non-empty well-formed room list, once all categories are laid
\* out, every input room has exactly one card, it is in the subplot of the
\* room's own type, and a subplot holds as many cards as there are input
\* rooms of its type.
C2_EveryRoomOneCard ==
  (pc = "done" /\ WellFormed /\ Len(rooms) > 0) =>
    /\ \A i \in 1..Len(rooms) :
         LET drawn == {jp \in {<<j, p>> : j \in 1..Len(axes), p \in 1..MaxRooms + 1} :
                         /\ jp[2] <= Len(axes[jp[1]].patches)
                         /\ axes[jp[1]].patches[jp[2]].room = i}
         IN /\ Cardinality(drawn) = 1
            /\ \A jp \in drawn : axes[jp[1]].type = rooms[i].type
    /\ \A j \in 1..Len(axes) :
         Len(axes[j].patches) =
           Cardinality({i \in 1..Len(rooms) : rooms[i].type = axes[j].type})

C2_Witness ==
  /\ pc = "done" /\ WellFormed
  /\ Len(axes) >= 2
  /\ \E j \in 1..Len(axes) : Len(axes[j].patches) >= 2

\* two rectangles with disjoint interiors
Disjoint(a, b) ==
  \/ a.x + a.w <= b.x
  \/ b.x + b.w <= a.x
  \/ a.y + a.h <= b.y
  \/ b.y + b.h <= a.y

\* C3: no two cards of one subplot overlap: two distinct room cards
\* (1.8 x 1.8) of a category have disjoint interiors, and so have two
\* distinct cards (2.5 x 0.8) of unallocated courses.
C3_NoOverlap ==
  /\ \A j \in 1..Len(axes) :
       \A p, q \in 1..Len(axes[j].patches) :
         /\ axes[j].patches[p].w = 18 /\ axes[j].patches[p].h = 18
         /\ p # q => Disjoint(axes[j].patches[p], axes[j].patches[q])
  /\ \A u \in 1..Len(unalloc_ax) :
       \A p, q \in 1..Len(unalloc_ax[u].patches) :
         /\ unalloc_ax[u].patches[p].w = 25 /\ unalloc_ax[u].patches[p].h = 8
         /\ p # q => Disjoint(unalloc_ax[u].patches[p], unalloc_ax[u].patches[q])

C3_Witness ==
  /\ Len(axes) = 1 /\ Len(axes[1].patches) > 5
  /\ Len(unalloc_ax) = 1 /\ Len(unalloc_ax[1].patches) > 8

\* C4: no category is dropped: every category has a cell inside the
\* computed grid, two categories never have the same cell, and once the
\* loop is over there is one subplot per type of the input.
C4_EveryCategoryHasACell ==
  /\ \A j \in 1..Len(axes) :
       /\ 0 <= axes[j].row /\ axes[j].row < num_rows
       /\ 0 <= axes[j].col /\ axes[j].col < num_cols
  /\ \A j, l \in 1..Len(axes) :
       j # l => <<axes[j].row, axes[j].col>> # <<axes[l].row, axes[l].col>>
  /\ pc = "done" => {axes[j].type : j \in 1..Len(axes)} = InputTypes

C4_Witness ==
  /\ pc = "done"
  /\ Len(axes) >= 3
  /\ Len(unalloc_ax) = 1

\* position of the first room of a type in the input
FirstSeen(t) == CHOOSE i \in 1..Len(rooms) :
                  /\ rooms[i].type = t
                  /\ \A l \in 1..(i - 1) : rooms[l].type # t

\* C5 as stated: categories are processed in the order in which their types
\* first appear in the input.
C5_FirstSeenOrder ==
  \A a, b \in 1..Len(axes) :
    a < b => FirstSeen(axes[a].type) < FirstSeen(axes[b].type)

\* C5 amended: categories are processed, and given their cells in row-major
\* order, in ascending order of the type, whatever the order of the input.
C5_SortedOrder ==
  /\ \A a, b \in 1..Len(axes) : a < b => axes[a].type < axes[b].type
  /\ \A a \in 1..Len(axes) : axes[a].row * num_cols + axes[a].col = a - 1

C5_Witness ==
  /\ pc = "done"
  /\ Len(axes) >= 2
  /\ \E i, l \in 1..Len(rooms) :
       i < l /\ rooms[i].type # Missing /\ rooms[l].type # Missing
             /\ rooms[i].type > rooms[l].type

\* C6: the utilization circle is the green end of the scale at utilization 0
\* and the red end at utilization 1.
C6_GreenLowRedHigh ==
  \A j \in 1..Len(axes) :
    \A p \in 1..Len(axes[j].patches) :
      LET card == axes[j].patches[p]
          room == rooms[card.room]
      IN card.color # NoColor =>
           /\ room.course = 0 => card.color = <<0, 104, 55>>
           /\ room.course = room.capacity => card.color = <<165, 0, 38>>

\* C7: a room without type or capacity, or a course without size, is fatal:
\* no image is written and main does not return normally.
C7_MalformedIsFatal ==
  ~WellFormed => (image = FALSE /\ exit_code # 0)

\* C8: the subplot of the unallocated courses exists iff m > 0; it holds m
\* cards, one per course in input order, on ceil(m / 8) rows, course i in
\* column i % 8 and in row i // 8 from the top.
C8_OverflowPagination ==
  pc = "done" =>
    /\ Len(unalloc_ax) = (IF m > 0 THEN 1 ELSE 0)
    /\ \A u \in 1..Len(unalloc_ax) :
         LET ax == unalloc_ax[u]
         IN /\ Len(ax.patches) = m
            /\ ax.rows_needed * 8 >= m
            /\ (ax.rows_needed - 1) * 8 < m
            /\ \A p \in 1..m :
                 /\ ax.patches[p].course = p - 1
                 /\ ax.patches[p].x = ((p - 1) % 8) * 30
                 /\ ax.patches[p].y = (ax.rows_needed - 1 - ((p - 1) \div 8)) * 12
                 /\ ax.patches[p].y <= ax.patches[1].y

C8_Witness ==
  /\ pc = "done"
  /\ m > 8
  /\ Len(unalloc_ax) = 1
  /\ unalloc_ax[1].patches[1].y > unalloc_ax[1].patches[m].y

\* C9 as stated: the row count is ceil((k + overflow) / 2), two columns
\* being used by the categories with and without overflow.
C9_RowsOverCategoryColumns ==
  num_cols # 0 =>
    LET total == Cardinality(InputTypes) + (IF m > 0 THEN 1 ELSE 0)
    IN /\ num_rows * 2 >= total
       /\ (num_rows - 1) * 2 < total

\* C9 amended: the row count is ceil((k + overflow) / num_cols), where
\* num_cols counts all the columns: 3 with overflow, 2 without.
C9_RowsOverAllColumns ==
  num_cols # 0 =>
    LET total == Cardinality(InputTypes) + (IF m > 0 THEN 1 ELSE 0)
    IN /\ num_cols = (IF m > 0 THEN 3 ELSE 2)
       /\ num_rows * num_cols >= total
       /\ (num_rows - 1) * num_cols < total

C9_Witness ==
  /\ num_cols = 3
  /\ Cardinality(InputTypes) = 2
  /\ num_rows = 1

\* C10: a category of n >= 1 rooms has cols = min(5, n) and rows with
\* cols * rows >= n > cols * (rows - 1); its i-th room in input order is at
\* x = (i % cols) * 2.2, y = (rows - 1 - i // cols) * 2.2, the first rooms in
\* the top row.
C10_CardPacker ==
  \A j \in 1..Len(axes) :
    LET ax == axes[j]
        n == Len(ax.patches)
    IN /\ n >= 1
       /\ ax.grid_cols = (IF n < 5 THEN n ELSE 5)
       /\ ax.grid_cols * ax.grid_rows >= n
       /\ ax.grid_cols * (ax.grid_rows - 1) < n
       /\ \A p \in 1..n :
            /\ ax.patches[p].x = ((p - 1) % ax.grid_cols) * 22
            /\ ax.patches[p].y = (ax.grid_rows - 1 - ((p - 1) \div ax.grid_cols)) * 22
            /\ ax.patches[p].y <= ax.patches[1].y
            /\ \A q \in 1..n : p < q => ax.patches[p].room < ax.patches[q].room

C10_Witness ==
  \E j \in 1..Len(axes) :
    /\ axes[j].grid_rows = 2
    /\ axes[j].patches[1].y > axes[j].patches[Len(axes[j].patches)].y
====
